---- MODULE Spec2Model ----
(***************************************************************************)
(* Model of the Shopify importer of autoworld-crawl.                       *)
(*                                                                         *)
(* Spec: the POST /import handler and its batch loop, createOrUpdate-      *)
(* Product, the SQLite mapping table `cars` and the Bottleneck limiter     *)
(* that guards every Admin API call.  Time is relative: the limiter's next *)
(* start time and the job timers are kept as distances from "now" and a    *)
(* Tick moves them.                                                        *)
(*                                                                         *)
(* SpecRequest: the bodies createOrUpdateProduct builds from one car       *)
(* (formatMoney, tags, buildMetafields, the three payloads), with          *)
(* JavaScript numbers computed as IEEE 754 doubles.                        *)
(*                                                                         *)
(* SpecLive, SpecBatch: Spec with the fairness of the event loop, the      *)
(* limiter's timers and the calls and store operations that return.        *)
(* SpecAuth: Spec with the Authorization check of POST /import and an      *)
(* IMPORT_AUTH_TOKEN that may be unset.                                    *)
(* SpecRemote: Spec with the products of the shop followed.                *)
(* SpecSync: one createOrUpdateProduct with the requests it sends, beside  *)
(* another writer of the table.                                            *)
(* SpecCrawl: the crawler's listing and detail handlers over the request   *)
(* queue, two at a time.                                                   *)
(***************************************************************************)
EXTENDS Integers, Sequences, FiniteSets, TLC

\* ---- bounds of the model ----
NumRuns == 3          \* import requests received in one behaviour
MaxRecords == 3       \* records in all the datasets of one behaviour
MaxRestarts == 1      \* process restarts in one behaviour

\* ---- program constants ----
maxConcurrent == 2
minTime == 500

\* import requests, numbered in the order of arrival; they may overlap
Runs == 1..NumRuns
StockIds == {"A"}
\* car.stockId of a dataset item: a stock id, or the empty string of an item
\* the crawler pushed without one
EmptyKey == ""
ItemKeys == StockIds \cup {EmptyKey}
\* value of key while no sync is in progress
NoKey == "-"
AuthToken == "secret"
\* Authorization headers of a request: none, the token, another token
Headers == {"", "Bearer " \o AuthToken, "Bearer guess"}
Quantum == minTime \div 2
NoRow == [productId |-> 0, variantId |-> 0]
NoCar == <<>>
NoRequest == <<>>

\* ids the remote mints for the product it creates on the i-th call of
\* request r: fresh for every call
ProductIdOf(r, i) == 10 * r + i
VariantIdOf(r, i) == 100 + ProductIdOf(r, i)

VARIABLES
  db,            \* table cars: set of rows [stock_id, product_id, variant_id]
  pc,            \* per import request: where its handler is suspended
  total,         \* per import request: items.length
  idx,           \* per import request: position of the for loop (1-based)
  key,           \* per import request: car.stockId of the sync in progress
  created, updated, failed,   \* per import request: the loop's counters
  response,      \* per import request: the JSON body sent back, or <<>>
  mapping,       \* per import request: the `mapping` local of the sync in progress
  newIds,        \* per import request: productId / variantId of the create reply
  queue,         \* limiter: jobs waiting for a free slot (FIFO)
  job,           \* limiter: per request, state of its job
  delay,         \* limiter: per request, time left on the job's start timer
  nextWait,      \* limiter: max(_nextRequest - now, 0)
  sinceDispatch, \* time since the last call was sent, saturating at minTime
  lastGap,       \* sinceDispatch as it was when the last call was sent
  logged,        \* per import request: what its last console.error was about
  cur,           \* per import request: what the sync in progress saw at its lookup
  reported,      \* stock ids for which some sync has returned created: true
  restarts,      \* restarts so far
  mappedAtRestart, \* stock ids that had a row when the process last restarted
  configured,    \* SHOPIFY_SHOP and SHOPIFY_ADMIN_TOKEN are both set
  importAuthToken, \* IMPORT_AUTH_TOKEN of the environment, "" when it is not set
  remote,        \* the shop: the products that create calls have made, kept
                 \* by the specifications that follow the shop
  car,           \* the dataset item createOrUpdateProduct is called with
  request        \* the body of the Admin API call built from car, as sent

VARIABLES
  requestQueue,  \* crawler: requests waiting for a handler
  known,         \* crawler: every request ever added to the queue
  running,       \* crawler: the handlers in progress
  seenStockIds,  \* crawler: the set seenStockIds
  visitedListingUrls, \* crawler: the set visitedListingUrls
  dataset,       \* crawler: per stock id, the records pushed to the dataset
  resolved,      \* crawler: per stock id, the detail pages that showed it
  extractions,   \* crawler: per listing URL, the times its links were extracted
  crawlErrors    \* crawler: handler invocations that have thrown

crawlVars == <<requestQueue, known, running, seenStockIds, visitedListingUrls,
               dataset, resolved, extractions, crawlErrors>>
limiterVars == <<queue, job, delay, nextWait, sinceDispatch, lastGap>>
loopVars == <<pc, total, idx, key, created, updated, failed, response, mapping,
              newIds, logged>>
requestVars == <<car, request>>
vars == <<db, loopVars, limiterVars, cur, reported, restarts, mappedAtRestart,
          configured, importAuthToken, crawlVars, remote, requestVars>>

\* ---- the mapping table ----
Rows(stockId) == {row \in db : row.stock_id = stockId}

getMapping(stockId) ==
  IF Rows(stockId) = {} THEN NoRow
  ELSE LET row == CHOOSE row \in Rows(stockId) : TRUE
       IN [productId |-> row.product_id, variantId |-> row.variant_id]

\* DELETE FROM cars, then INSERT: the table is left with the new row alone
setMappingTruncating(stockId, productId, variantId) ==
  {[stock_id |-> stockId, product_id |-> productId, variant_id |-> variantId]}

\* INSERT INTO cars on a table without the primary key: the row is added
setMappingInsert(stockId, productId, variantId) ==
  db \cup
    {[stock_id |-> stockId, product_id |-> productId, variant_id |-> variantId]}

setMapping(stockId, productId, variantId) ==
  (db \ Rows(stockId)) \cup
    {[stock_id |-> stockId, product_id |-> productId, variant_id |-> variantId]}

\* new sqlite3.Database('db.sqlite') with a table that exists only in memory
OpenDbInMemory(file) == {}

\* new sqlite3.Database('db.sqlite') and CREATE TABLE IF NOT EXISTS, on the
\* file a previous process left: the rows of the file are the table
OpenDb(file) == file

\* ---- the limiter ----
\* a limiter that admits every job at once
HasSlotAlways(j) == TRUE

\* _nextRequest left at the start time of the job just admitted
NextRequestNoGap(wait) == wait

Running(j) == {r \in Runs : j[r] \in {"running", "executing"}}

HasSlot(j) == Cardinality(Running(j)) < maxConcurrent

NextRequest(wait) == wait + minTime

RECURSIVE DrainAll(_)
DrainAll(L) ==
  IF L.queue # <<>> /\ HasSlot(L.job)
  THEN LET r == Head(L.queue)
       IN DrainAll([queue |-> Tail(L.queue),
                    job |-> [L.job EXCEPT ![r] = "running"],
                    delay |-> [L.delay EXCEPT ![r] = L.nextWait],
                    nextWait |-> NextRequest(L.nextWait)])
  ELSE L

Limiter == [queue |-> queue, job |-> job, delay |-> delay, nextWait |-> nextWait]

SetLimiter(L) ==
  /\ queue' = L.queue
  /\ job' = L.job
  /\ delay' = L.delay
  /\ nextWait' = L.nextWait

\* limiter.schedule(task) called by request r
Schedule(L, r) ==
  DrainAll([L EXCEPT !.queue = Append(L.queue, r), !.job[r] = "queued"])

\* a limiter that frees the slot and leaves the queue as it is
JobDoneNotDraining(r) == [Limiter EXCEPT !.job[r] = "none"]

\* the task of request r settled: its slot is freed and the queue drained
JobDone(r) == DrainAll([Limiter EXCEPT !.job[r] = "none"])

\* ---- the batch loop ----
InFlight == {"create", "setMapping", "updateProduct", "updateVariant"}

\* prev: a sync for the same stock id had returned created: true before this
\* sync looked the stock id up; rival: a sync that was between its lookup and
\* its return together with this one, for the same stock id, has stored its
\* mapping and returned created: true
NoCur == [prev |-> FALSE, rival |-> FALSE]

\* the for loop after an iteration that ended with outcome out, when an
\* error thrown by the sync leaves the loop: the request fails as a whole
LoopNextAborting(r, out) ==
  /\ idx' = [idx EXCEPT ![r] = @ + 1]
  /\ IF idx[r] < total[r] /\ out # "Failed"
     THEN /\ pc' = [pc EXCEPT ![r] = "getMapping"]
          /\ UNCHANGED response
     ELSE /\ pc' = [pc EXCEPT ![r] = "done"]
          /\ response' = [response EXCEPT ![r] =
               [ok |-> out # "Failed", total |-> total[r], created |-> created'[r],
                updated |-> updated'[r], failed |-> failed'[r]]]

\* a for loop that runs one iteration past the last item
LoopNextOneMore(r, out) ==
  /\ idx' = [idx EXCEPT ![r] = @ + 1]
  /\ IF idx[r] <= total[r]
     THEN /\ pc' = [pc EXCEPT ![r] = "getMapping"]
          /\ UNCHANGED response
     ELSE /\ pc' = [pc EXCEPT ![r] = "done"]
          /\ response' = [response EXCEPT ![r] =
               [ok |-> TRUE, total |-> total[r], created |-> created'[r],
                updated |-> updated'[r], failed |-> failed'[r]]]

\* the for loop after an iteration that ended with outcome out: the next item
\* is taken, or the response is sent after the last one
LoopNext(r, out) ==
  /\ idx' = [idx EXCEPT ![r] = @ + 1]
  /\ IF idx[r] < total[r]
     THEN /\ pc' = [pc EXCEPT ![r] = "getMapping"]
          /\ UNCHANGED response
     ELSE /\ pc' = [pc EXCEPT ![r] = "done"]
          /\ response' = [response EXCEPT ![r] =
               [ok |-> TRUE, total |-> total[r], created |-> created'[r],
                updated |-> updated'[r], failed |-> failed'[r]]]

\* the loop body with the counting after the try / catch instead of inside
\* the try: a record whose sync threw is counted as failed and as updated
IterateFallthrough(r, k, out, why) ==
  /\ reported' = IF out = "Created" THEN reported \cup {k} ELSE reported
  /\ created' = [created EXCEPT ![r] = IF out = "Created" THEN @ + 1 ELSE @]
  /\ updated' = [updated EXCEPT ![r] = IF out # "Created" THEN @ + 1 ELSE @]
  /\ failed' = [failed EXCEPT ![r] = IF out = "Failed" THEN @ + 1 ELSE @]
  /\ logged' = [logged EXCEPT ![r] = IF out = "Failed" THEN why ELSE @]
  /\ key' = [key EXCEPT ![r] = NoKey]
  /\ mapping' = [mapping EXCEPT ![r] = NoRow]
  /\ newIds' = [newIds EXCEPT ![r] = NoRow]
  /\ cur' = [s \in Runs |->
       IF s = r THEN NoCur
       ELSE IF pc[r] = "setMapping" /\ out = "Created" /\ pc[s] \in InFlight /\ key[s] = k
       THEN [cur[s] EXCEPT !.rival = TRUE]
       ELSE cur[s]]
  /\ LoopNext(r, out)

\* createOrUpdateProduct for stock id k settles with outcome out ("Created",
\* "Updated", or "Failed" with the error why); the loop counts it and goes on
Iterate(r, k, out, why) ==
  /\ reported' = IF out = "Created" THEN reported \cup {k} ELSE reported
  /\ created' = [created EXCEPT ![r] = IF out = "Created" THEN @ + 1 ELSE @]
  /\ updated' = [updated EXCEPT ![r] = IF out = "Updated" THEN @ + 1 ELSE @]
  /\ failed' = [failed EXCEPT ![r] = IF out = "Failed" THEN @ + 1 ELSE @]
  /\ logged' = [logged EXCEPT ![r] = IF out = "Failed" THEN why ELSE @]
  /\ key' = [key EXCEPT ![r] = NoKey]
  /\ mapping' = [mapping EXCEPT ![r] = NoRow]
  /\ newIds' = [newIds EXCEPT ![r] = NoRow]
  /\ cur' = [s \in Runs |->
       IF s = r THEN NoCur
       ELSE IF pc[r] = "setMapping" /\ out = "Created" /\ pc[s] \in InFlight /\ key[s] = k
       THEN [cur[s] EXCEPT !.rival = TRUE]
       ELSE cur[s]]
  /\ LoopNext(r, out)

\* the shop when it is not followed, and the shop without products
NoShop == [followed |-> FALSE, products |-> {}]
EmptyShop == [followed |-> TRUE, products |-> {}]

\* the shop after it has created a product for the stock id
Created(shop, stockId, productId) ==
  IF shop.followed
  THEN [shop EXCEPT !.products =
          @ \cup {[stock_id |-> stockId, product_id |-> productId]}]
  ELSE shop

ImporterInit ==
  /\ db = {}
  /\ pc = [r \in Runs |-> "idle"]
  /\ total = [r \in Runs |-> 0]
  /\ idx = [r \in Runs |-> 0]
  /\ key = [r \in Runs |-> NoKey]
  /\ created = [r \in Runs |-> 0]
  /\ updated = [r \in Runs |-> 0]
  /\ failed = [r \in Runs |-> 0]
  /\ response = [r \in Runs |-> <<>>]
  /\ mapping = [r \in Runs |-> NoRow]
  /\ newIds = [r \in Runs |-> NoRow]
  /\ logged = [r \in Runs |-> ""]
  /\ queue = <<>>
  /\ job = [r \in Runs |-> "none"]
  /\ delay = [r \in Runs |-> 0]
  /\ nextWait = 0
  /\ sinceDispatch = minTime
  /\ lastGap = minTime
  /\ cur = [r \in Runs |-> NoCur]
  /\ reported = {}
  /\ restarts = 0
  /\ mappedAtRestart = {}

\* the crawler is not part of the importer's process
NoCrawl ==
  /\ requestQueue = {}
  /\ known = {}
  /\ running = {}
  /\ seenStockIds = {}
  /\ visitedListingUrls = {}
  /\ dataset = <<>>
  /\ resolved = <<>>
  /\ extractions = <<>>
  /\ crawlErrors = 0

\* the importer has started, with or without the Shopify settings in its
\* environment; no request has arrived
Init ==
  /\ ImporterInit
  /\ remote = NoShop
  /\ configured \in BOOLEAN
  /\ importAuthToken = AuthToken
  /\ NoCrawl
  /\ car = NoCar
  /\ request = NoRequest

\* records fetched so far by the requests of the set S
RECURSIVE Fetched(_)
Fetched(S) ==
  IF S = {} THEN 0
  ELSE LET r == CHOOSE r \in S : TRUE IN total[r] + Fetched(S \ {r})

\* `Bearer ${process.env.IMPORT_AUTH_TOKEN}`, or '' without a token
expected == IF importAuthToken # "" THEN "Bearer " \o importAuthToken ELSE ""

\* expected && authHeader !== expected
Rejected(authHeader) == expected # "" /\ authHeader # expected

\* POST /import arrives with the Authorization header authHeader ("" when
\* the request has none) and is answered 401
Unauthorized(r, authHeader) ==
  /\ pc[r] = "idle"
  /\ \A s \in Runs : s < r => pc[s] # "idle"
  /\ Rejected(authHeader)
  /\ pc' = [pc EXCEPT ![r] = "done"]
  /\ response' = [response EXCEPT ![r] =
       [status |-> 401, ok |-> FALSE, error |-> "Unauthorized"]]
  /\ UNCHANGED <<db, total, idx, key, created, updated, failed, mapping,
                 newIds, logged, limiterVars, cur, reported, restarts,
                 mappedAtRestart, configured, importAuthToken, crawlVars, remote, requestVars>>

\* POST /import arrives with the Authorization header authHeader and passes
\* the check; the dataset of n items is fetched and the loop calls
\* createOrUpdateProduct for the first item
StartImport(r, n, authHeader) ==
  /\ pc[r] = "idle"
  /\ ~Rejected(authHeader)
  /\ n <= MaxRecords - Fetched(Runs)
  /\ \A s \in Runs : s < r => pc[s] # "idle"
  /\ pc' = [pc EXCEPT ![r] = "getMapping"]
  /\ total' = [total EXCEPT ![r] = n]
  /\ idx' = [idx EXCEPT ![r] = 1]
  /\ UNCHANGED <<db, key, created, updated, failed, response, mapping,
                 newIds, logged, limiterVars, cur, reported, restarts,
                 mappedAtRestart, configured, importAuthToken, crawlVars, remote, requestVars>>

\* a lookup that, without a row, adopts a product the shop already has for
\* the stock id
GetMappingAdopting(r, k) ==
  /\ pc[r] = "getMapping"
  /\ key' = [key EXCEPT ![r] = k]
  /\ LET inShop == {e \in remote.products : e.stock_id = k}
         found == IF getMapping(k).productId = 0 /\ inShop # {}
                  THEN [productId |-> (CHOOSE e \in inShop : TRUE).product_id,
                        variantId |-> 0]
                  ELSE getMapping(k)
     IN /\ mapping' = [mapping EXCEPT ![r] = found]
        /\ pc' = [pc EXCEPT ![r] =
             IF found.productId = 0 THEN "create" ELSE "updateProduct"]
  /\ cur' = [cur EXCEPT ![r] = [prev |-> k \in reported, rival |-> FALSE]]
  /\ SetLimiter(Schedule(Limiter, r))
  /\ UNCHANGED <<db, total, idx, created, updated, failed, response, newIds,
                 logged, sinceDispatch, lastGap, reported, restarts,
                 mappedAtRestart, configured, importAuthToken, crawlVars,
                 remote, requestVars>>

\* db.get answers for the item with stock id k: the sync branches and hands
\* its first call to the limiter
GetMapping(r, k) ==
  /\ pc[r] = "getMapping"
  /\ key' = [key EXCEPT ![r] = k]
  /\ mapping' = [mapping EXCEPT ![r] = getMapping(k)]
  /\ pc' = [pc EXCEPT ![r] =
       IF getMapping(k).productId = 0 THEN "create" ELSE "updateProduct"]
  /\ cur' = [cur EXCEPT ![r] = [prev |-> k \in reported, rival |-> FALSE]]
  /\ SetLimiter(Schedule(Limiter, r))
  /\ UNCHANGED <<db, total, idx, created, updated, failed, response, newIds,
                 logged, sinceDispatch, lastGap, reported, restarts,
                 mappedAtRestart, configured, importAuthToken, crawlVars, remote, requestVars>>

\* db.get fails, with a getMapping that resolves with nulls on an error:
\* the sync takes the create branch for the item, whose stock id is k
GetMappingErrorAsMissing(r) ==
  /\ pc[r] = "getMapping"
  /\ \E k \in ItemKeys : key' = [key EXCEPT ![r] = k]
  /\ mapping' = [mapping EXCEPT ![r] = NoRow]
  /\ pc' = [pc EXCEPT ![r] = "create"]
  /\ cur' = [cur EXCEPT ![r] = NoCur]
  /\ SetLimiter(Schedule(Limiter, r))
  /\ UNCHANGED <<db, total, idx, created, updated, failed, response, newIds,
                 logged, sinceDispatch, lastGap, reported, restarts,
                 mappedAtRestart, configured, importAuthToken, crawlVars, remote, requestVars>>

\* db.get fails: createOrUpdateProduct rejects
GetMappingError(r) ==
  /\ pc[r] = "getMapping"
  /\ Iterate(r, NoKey, "Failed", "lookup")
  /\ UNCHANGED <<db, total, limiterVars, restarts, mappedAtRestart, configured, importAuthToken, crawlVars, remote, requestVars>>

\* the start timer of r's job fires: the HTTP request is sent
Dispatch(r) ==
  /\ job[r] = "running"
  /\ delay[r] = 0
  /\ job' = [job EXCEPT ![r] = "executing"]
  /\ lastGap' = sinceDispatch
  /\ sinceDispatch' = 0
  /\ UNCHANGED <<db, loopVars, queue, delay, nextWait, cur, reported,
                 restarts, mappedAtRestart, configured, importAuthToken, crawlVars, remote, requestVars>>

\* time passes; a timer that is due fires before time moves on
Tick ==
  /\ \A r \in Runs : job[r] = "running" => delay[r] > 0
  /\ nextWait > 0 \/ sinceDispatch < minTime
  /\ delay' = [r \in Runs |-> IF delay[r] > Quantum THEN delay[r] - Quantum ELSE 0]
  /\ nextWait' = IF nextWait > Quantum THEN nextWait - Quantum ELSE 0
  /\ sinceDispatch' = IF sinceDispatch + Quantum < minTime
                      THEN sinceDispatch + Quantum ELSE minTime
  /\ UNCHANGED <<db, loopVars, queue, job, lastGap, cur, reported,
                 restarts, mappedAtRestart, configured, importAuthToken, crawlVars, remote, requestVars>>

\* the limiter runs the task and shopifyApi throws before it sends anything:
\* SHOPIFY_SHOP or SHOPIFY_ADMIN_TOKEN is not defined
ConfigError(r) ==
  /\ pc[r] \in {"create", "updateProduct", "updateVariant"}
  /\ job[r] = "executing"
  /\ ~configured
  /\ SetLimiter(JobDone(r))
  /\ Iterate(r, key[r], "Failed", "config")
  /\ UNCHANGED <<db, total, sinceDispatch, lastGap, restarts, mappedAtRestart, configured, importAuthToken, crawlVars, remote, requestVars>>

\* POST products.json is rejected, with a sync that hands the call to the
\* limiter again
CreateErrorRetrying(r) ==
  /\ pc[r] = "create"
  /\ job[r] = "executing"
  /\ configured
  /\ SetLimiter(Schedule(JobDone(r), r))
  /\ UNCHANGED <<db, loopVars, sinceDispatch, lastGap, cur, reported, restarts,
                 mappedAtRestart, configured, importAuthToken, crawlVars,
                 remote, requestVars>>

\* POST products.json fails, with a sync that stores what it has on the way out
CreateErrorStoring(r) ==
  /\ pc[r] = "create"
  /\ job[r] = "executing"
  /\ configured
  /\ SetLimiter(JobDone(r))
  /\ Iterate(r, key[r], "Failed", "create")
  /\ db' = setMapping(key[r], 0, 0)
  /\ UNCHANGED <<total, sinceDispatch, lastGap, restarts, mappedAtRestart, configured, importAuthToken, crawlVars, remote, requestVars>>

\* POST products.json fails (network, status, body without product)
CreateError(r) ==
  /\ pc[r] = "create"
  /\ job[r] = "executing"
  /\ configured
  /\ SetLimiter(JobDone(r))
  /\ Iterate(r, key[r], "Failed", "create")
  /\ UNCHANGED <<db, total, sinceDispatch, lastGap, restarts, mappedAtRestart, configured, importAuthToken, crawlVars, remote, requestVars>>

\* POST products.json is answered with a product, with a sync that stores
\* the mapping whenever the reply carries a product id
CreateReplyStoringProduct(r, hasId, hasVariant) ==
  /\ pc[r] = "create"
  /\ job[r] = "executing"
  /\ configured
  /\ SetLimiter(JobDone(r))
  /\ remote' = Created(remote, key[r], ProductIdOf(r, idx[r]))
  /\ UNCHANGED <<db, total, sinceDispatch, lastGap, restarts, mappedAtRestart,
                 configured, importAuthToken, crawlVars, requestVars>>
  /\ LET productId == IF hasId THEN ProductIdOf(r, idx[r]) ELSE 0
         variantId == IF hasVariant THEN VariantIdOf(r, idx[r]) ELSE 0
     IN IF productId # 0
        THEN /\ newIds' = [newIds EXCEPT ![r] =
                  [productId |-> productId, variantId |-> variantId]]
             /\ pc' = [pc EXCEPT ![r] = "setMapping"]
             /\ UNCHANGED <<idx, key, created, updated, failed, response, mapping,
                            logged, cur, reported>>
        ELSE Iterate(r, key[r], "Created", "")

\* POST products.json is answered with a product; hasId tells whether the
\* product of the reply carries an id, hasVariant whether it carries a variant
CreateReply(r, hasId, hasVariant) ==
  /\ pc[r] = "create"
  /\ job[r] = "executing"
  /\ configured
  /\ SetLimiter(JobDone(r))
  /\ remote' = Created(remote, key[r], ProductIdOf(r, idx[r]))
  /\ UNCHANGED <<db, total, sinceDispatch, lastGap, restarts, mappedAtRestart, configured, importAuthToken, crawlVars, requestVars>>
  /\ LET productId == IF hasId THEN ProductIdOf(r, idx[r]) ELSE 0
         variantId == IF hasVariant THEN VariantIdOf(r, idx[r]) ELSE 0
     IN IF productId # 0 /\ variantId # 0
        THEN /\ newIds' = [newIds EXCEPT ![r] =
                  [productId |-> productId, variantId |-> variantId]]
             /\ pc' = [pc EXCEPT ![r] = "setMapping"]
             /\ UNCHANGED <<idx, key, created, updated, failed, response, mapping,
                            logged, cur, reported>>
        ELSE Iterate(r, key[r], "Created", "")

\* INSERT OR REPLACE is executed, then the sync returns created: true
SetMapping(r) ==
  /\ pc[r] = "setMapping"
  /\ db' = setMapping(key[r], newIds[r].productId, newIds[r].variantId)
  /\ Iterate(r, key[r], "Created", "")
  /\ UNCHANGED <<total, limiterVars, restarts, mappedAtRestart, configured, importAuthToken, crawlVars, remote, requestVars>>

\* INSERT OR REPLACE fails: the sync rejects
SetMappingError(r) ==
  /\ pc[r] = "setMapping"
  /\ Iterate(r, key[r], "Failed", "store")
  /\ UNCHANGED <<db, total, limiterVars, restarts, mappedAtRestart, configured, importAuthToken, crawlVars, remote, requestVars>>

\* PUT products/<id>.json succeeds, with a sync that returns there and
\* leaves the variant as it is
UpdateProductReplyReturning(r) ==
  /\ pc[r] = "updateProduct"
  /\ job[r] = "executing"
  /\ configured
  /\ SetLimiter(JobDone(r))
  /\ Iterate(r, key[r], "Updated", "")
  /\ UNCHANGED <<db, total, sinceDispatch, lastGap, restarts, mappedAtRestart,
                 configured, importAuthToken, crawlVars, remote, requestVars>>

\* PUT products/<id>.json succeeds: the variant update goes to the limiter
UpdateProductReply(r) ==
  /\ pc[r] = "updateProduct"
  /\ job[r] = "executing"
  /\ configured
  /\ UNCHANGED <<db, total, sinceDispatch, lastGap, restarts, mappedAtRestart, configured, importAuthToken, crawlVars, remote, requestVars>>
  /\ IF mapping[r].variantId # 0
     THEN /\ SetLimiter(Schedule(JobDone(r), r))
          /\ pc' = [pc EXCEPT ![r] = "updateVariant"]
          /\ UNCHANGED <<idx, key, created, updated, failed, response, mapping,
                         newIds, logged, cur, reported>>
     ELSE /\ SetLimiter(JobDone(r))
          /\ Iterate(r, key[r], "Updated", "")

\* PUT variants/<id>.json succeeds
UpdateVariantReply(r) ==
  /\ pc[r] = "updateVariant"
  /\ job[r] = "executing"
  /\ configured
  /\ SetLimiter(JobDone(r))
  /\ Iterate(r, key[r], "Updated", "")
  /\ UNCHANGED <<db, total, sinceDispatch, lastGap, restarts, mappedAtRestart, configured, importAuthToken, crawlVars, remote, requestVars>>

\* one of the two PUT calls fails, with a sync that forgets the mapping of a
\* product it could not update
UpdateErrorForgetting(r) ==
  /\ pc[r] \in {"updateProduct", "updateVariant"}
  /\ job[r] = "executing"
  /\ configured
  /\ SetLimiter(JobDone(r))
  /\ Iterate(r, key[r], "Failed", "update")
  /\ db' = db \ Rows(key[r])
  /\ UNCHANGED <<total, sinceDispatch, lastGap, restarts, mappedAtRestart, configured, importAuthToken, crawlVars, remote, requestVars>>

\* one of the two PUT calls fails
UpdateError(r) ==
  /\ pc[r] \in {"updateProduct", "updateVariant"}
  /\ job[r] = "executing"
  /\ configured
  /\ SetLimiter(JobDone(r))
  /\ Iterate(r, key[r], "Failed", "update")
  /\ UNCHANGED <<db, total, sinceDispatch, lastGap, restarts, mappedAtRestart, configured, importAuthToken, crawlVars, remote, requestVars>>

\* the process exits and starts again: db.sqlite and the remote catalog stay,
\* the requests in progress are lost together with the limiter
Alive(r) == pc[r] \notin {"idle", "killed"}

Restart ==
  /\ restarts < MaxRestarts
  /\ \E r \in Runs : Alive(r)
  /\ restarts' = restarts + 1
  /\ mappedAtRestart' = {row.stock_id : row \in db}
  /\ pc' = [r \in Runs |-> IF Alive(r) THEN "killed" ELSE pc[r]]
  /\ idx' = [r \in Runs |-> 0]
  /\ key' = [r \in Runs |-> NoKey]
  /\ created' = [r \in Runs |-> 0]
  /\ updated' = [r \in Runs |-> 0]
  /\ failed' = [r \in Runs |-> 0]
  /\ response' = [r \in Runs |-> <<>>]
  /\ mapping' = [r \in Runs |-> NoRow]
  /\ newIds' = [r \in Runs |-> NoRow]
  /\ logged' = [r \in Runs |-> ""]
  /\ queue' = <<>>
  /\ job' = [r \in Runs |-> "none"]
  /\ delay' = [r \in Runs |-> 0]
  /\ nextWait' = 0
  /\ sinceDispatch' = minTime
  /\ lastGap' = minTime
  /\ cur' = [r \in Runs |-> NoCur]
  /\ db' = OpenDb(db)
  /\ UNCHANGED <<total, reported, configured, importAuthToken, crawlVars, remote, requestVars>>

Next ==
  \/ \E r \in Runs, n \in 1..MaxRecords, authHeader \in Headers :
       StartImport(r, n, authHeader)
  \/ \E r \in Runs, k \in ItemKeys : GetMapping(r, k)
  \/ \E r \in Runs : GetMappingError(r)
  \/ \E r \in Runs : Dispatch(r)
  \/ Tick
  \/ \E r \in Runs : ConfigError(r)
  \/ \E r \in Runs : CreateError(r)
  \/ \E r \in Runs, hasId \in BOOLEAN, hasVariant \in BOOLEAN :
       CreateReply(r, hasId, hasVariant)
  \/ \E r \in Runs : SetMapping(r)
  \/ \E r \in Runs : SetMappingError(r)
  \/ \E r \in Runs : UpdateProductReply(r)
  \/ \E r \in Runs : UpdateVariantReply(r)
  \/ \E r \in Runs : UpdateError(r)
  \/ Restart

\* the importer's requests, all of which carry the token of the environment
Spec == Init /\ [][Next]_vars

\* the call of request r settles: axios resolves, rejects or times out
\* (timeout: 30000), or shopifyApi throws
Settle(r) ==
  \/ ConfigError(r)
  \/ CreateError(r)
  \/ \E hasId \in BOOLEAN, hasVariant \in BOOLEAN : CreateReply(r, hasId, hasVariant)
  \/ UpdateProductReply(r)
  \/ UpdateVariantReply(r)
  \/ UpdateError(r)

\* the importer with what its scheduling guarantees: time passes, a timer
\* that is due fires, and a call that was sent settles
Fairness ==
  /\ WF_vars(Tick)
  /\ \A r \in Runs : WF_vars(Dispatch(r))
  /\ \A r \in Runs : WF_vars(Settle(r))

SpecLive == Init /\ [][Next]_vars /\ Fairness

\* a db.get or db.run of request r calls back, with or without an error
StoreReturns(r) ==
  \/ \E k \in ItemKeys : GetMapping(r, k)
  \/ GetMappingError(r)
  \/ SetMapping(r)
  \/ SetMappingError(r)

\* the importer when the store's operations return as well
SpecBatch ==
  Init /\ [][Next]_vars /\ Fairness /\ \A r \in Runs : WF_vars(StoreReturns(r))

\* the importer started with or without IMPORT_AUTH_TOKEN in its
\* environment, and requests with any Authorization header
InitAuth ==
  /\ ImporterInit
  /\ remote = NoShop
  /\ configured \in BOOLEAN
  /\ importAuthToken \in {"", AuthToken}
  /\ NoCrawl
  /\ car = NoCar
  /\ request = NoRequest

NextAuth ==
  \/ \E r \in Runs, authHeader \in Headers : Unauthorized(r, authHeader)
  \/ Next

SpecAuth == InitAuth /\ [][NextAuth]_vars

\* the importer together with the shop's products
InitRemote ==
  /\ ImporterInit
  /\ remote = EmptyShop
  /\ configured \in BOOLEAN
  /\ importAuthToken = AuthToken
  /\ NoCrawl
  /\ car = NoCar
  /\ request = NoRequest

SpecRemote == InitRemote /\ [][Next]_vars

TypeOK ==
  /\ \A r \in Runs : pc[r] \in {"idle", "getMapping", "done", "killed"} \cup InFlight
  /\ \A r \in Runs : job[r] \in {"none", "queued", "running", "executing"}
\* ---- numbers ----
\* A JavaScript number is an IEEE 754 double.  A finite positive double is
\* kept as [sig, exp] with 2^52 <= sig < 2^53 and the value sig * 2^exp.
\* A natural number of any size is a sequence of limbs in base Base, most
\* significant first, without a leading zero limb.
Precision == 53
LimbBits == 12
Base == 2 ^ LimbBits
Zero == [sig |-> <<>>, exp |-> 0]

LimbsOf(n) ==
  IF n = 0 THEN <<>>
  ELSE IF n < Base THEN <<n>>
  ELSE IF n < Base * Base THEN <<n \div Base, n % Base>>
  ELSE <<n \div (Base * Base), (n \div Base) % Base, n % Base>>

RECURSIVE ValueOf(_)
ValueOf(b) ==
  IF b = <<>> THEN 0 ELSE Base * ValueOf(SubSeq(b, 1, Len(b) - 1)) + b[Len(b)]

Zeros(k) == [i \in 1..k |-> 0]

RECURSIVE StripZeros(_)
StripZeros(b) == IF b # <<>> /\ b[1] = 0 THEN StripZeros(Tail(b)) ELSE b

\* b * c + carry, for a small c
RECURSIVE MulSmall(_, _, _)
MulSmall(b, c, carry) ==
  IF b = <<>> THEN LimbsOf(carry)
  ELSE Append(MulSmall(SubSeq(b, 1, Len(b) - 1), c,
                       (b[Len(b)] * c + carry) \div Base),
              (b[Len(b)] * c + carry) % Base)

\* long division of b by a small c, from limb i on, with the remainder rem
\* and the limbs q of the quotient so far
RECURSIVE DivSmall(_, _, _, _, _)
DivSmall(b, c, i, rem, q) ==
  IF i > Len(b) THEN [q |-> StripZeros(q), r |-> rem]
  ELSE DivSmall(b, c, i + 1, (rem * Base + b[i]) % c,
                Append(q, (rem * Base + b[i]) \div c))

\* b + 1
RECURSIVE Increment(_)
Increment(b) ==
  IF b = <<>> THEN <<1>>
  ELSE IF b[Len(b)] < Base - 1 THEN [b EXCEPT ![Len(b)] = @ + 1]
  ELSE Append(Increment(SubSeq(b, 1, Len(b) - 1)), 0)

\* number of bits of b
BitLength(b) ==
  IF b = <<>> THEN 0
  ELSE (LimbBits * (Len(b) - 1))
       + (CHOOSE k \in 1..LimbBits : 2 ^ (k - 1) <= b[1] /\ b[1] < 2 ^ k)

\* b shifted right by k bits: q the bits that stay, r whether a bit that was
\* shifted out is set
ShiftRight(b, k) ==
  LET limbs == k \div LimbBits
      kept == SubSeq(b, 1, Len(b) - limbs)
      d == DivSmall(kept, 2 ^ (k % LimbBits), 1, 0, <<>>)
  IN IF limbs >= Len(b) THEN [q |-> <<>>, r |-> b # <<>>]
     ELSE [q |-> d.q,
           r |-> d.r # 0 \/ \E i \in Len(b) - limbs + 1..Len(b) : b[i] # 0]

\* floor(b * 2^e + 1/2)
RoundHalfUp(b, e) ==
  IF e >= 0 THEN ValueOf(b) * 2 ^ e
  ELSE LET twice == ValueOf(ShiftRight(b, -e - 1).q)
       IN (twice \div 2) + (twice % 2)

\* the double nearest to (b + f) * 2^e, where f is a fraction below one and
\* sticky tells whether f is not zero: round to nearest, ties to even
RoundToDouble(b, sticky, e) ==
  LET drop == BitLength(b) - Precision
      s == ShiftRight(b, drop - 1)
      half == s.q[Len(s.q)] % 2 = 1
      kept == DivSmall(s.q, 2, 1, 0, <<>>).q
      even == kept[Len(kept)] % 2 = 0
      up == half /\ (s.r \/ sticky \/ ~even)
      rounded == IF up THEN Increment(kept) ELSE kept
  IN IF drop <= 0
     THEN [sig |-> MulSmall(b, 2 ^ ((-drop) % LimbBits), 0) \o Zeros((-drop) \div LimbBits),
           exp |-> e + drop]
     ELSE IF BitLength(rounded) > Precision
     THEN [sig |-> DivSmall(rounded, 2, 1, 0, <<>>).q, exp |-> e + drop + 1]
     ELSE [sig |-> rounded, exp |-> e + drop]

\* the double nearest to n / den, for naturals n < 2^31 and 0 < den < 2^10:
\* the value of a decimal literal, and the result of the division n / den
GuardLimbs == 6
Quotient(n, den) ==
  IF n = 0 THEN Zero
  ELSE LET d == DivSmall(LimbsOf(n) \o Zeros(GuardLimbs), den, 1, 0, <<>>)
       IN RoundToDouble(d.q, d.r # 0, -(GuardLimbs * LimbBits))

\* x * c for a double x and a small natural c
Times(x, c) ==
  IF x = Zero THEN Zero ELSE RoundToDouble(MulSmall(x.sig, c, 0), FALSE, x.exp)

\* Math.round(x): the integer nearest to x, a tie going up
MathRound(x) == IF x = Zero THEN 0 ELSE RoundHalfUp(x.sig, x.exp)

Pad2(n) == IF n < 10 THEN "0" \o ToString(n) ELSE ToString(n)

\* hundredths(x): the integer n for which n / 100 - x is nearest to zero, the
\* larger one if there are two
Hundredths(x) == IF x = Zero THEN 0 ELSE RoundHalfUp(MulSmall(x.sig, 100, 0), x.exp)

\* x.toFixed(2): the digits of that integer with a point before the last two
ToFixed2(x) == ToString(Hundredths(x) \div 100) \o "." \o Pad2(Hundredths(x) % 100)

\* ---- JavaScript values ----
\* every value is a record with its type; a number is the decimal literal
\* milli / 1000 of the dataset's JSON, or NaN; an object is a record of values
Undefined == [type |-> "undefined"]
Null == [type |-> "null"]
NaN == [type |-> "number", nan |-> TRUE, milli |-> 0]
Num(milli) == [type |-> "number", nan |-> FALSE, milli |-> milli]
Str(s) == [type |-> "string", s |-> s]
Arr(items) == [type |-> "array", items |-> items]

isNaN(value) == value = Undefined \/ (value.type = "number" /\ value.nan)

\* !value
Falsy(value) ==
  \/ value \in {Undefined, Null, NaN, Str("")}
  \/ value.type = "number" /\ value.milli = 0

\* value ?? other
Coalesce(value, other) == IF value \in {Undefined, Null} THEN other ELSE value

Pad3(n) == IF n < 100 THEN "0" \o Pad2(n) ELSE ToString(n)

\* String(value) and `${value}`
ToStr(value) ==
  IF value.type = "string" THEN value.s
  ELSE IF value.type = "number" THEN
    IF value.nan THEN "NaN"
    ELSE IF value.milli % 1000 = 0 THEN ToString(value.milli \div 1000)
    ELSE ToString(value.milli \div 1000) \o "." \o
         (IF value.milli % 100 = 0 THEN ToString((value.milli % 1000) \div 100)
          ELSE IF value.milli % 10 = 0 THEN Pad2((value.milli % 1000) \div 10)
          ELSE Pad3(value.milli % 1000))
  ELSE value.type

\* array.join(sep) for an array of strings
RECURSIVE Join(_, _)
Join(items, sep) ==
  IF items = <<>> THEN ""
  ELSE IF Len(items) = 1 THEN items[1]
  ELSE items[1] \o sep \o Join(Tail(items), sep)

\* Array.from(new Set(items)) that keeps every element
UniqueKeepingAll(items) == items

\* Array.from(new Set(items)): the first occurrence of every element, in order
RECURSIVE Unique(_)
Unique(items) ==
  IF items = <<>> THEN <<>>
  ELSE IF \E j \in 1..Len(items) - 1 : items[j] = items[Len(items)]
  THEN Unique(SubSeq(items, 1, Len(items) - 1))
  ELSE Append(Unique(SubSeq(items, 1, Len(items) - 1)), items[Len(items)])

\* [].concat(value || []): the elements of an array, a string as one
\* element, nothing for a falsy value
ConcatOrEmpty(value) ==
  IF Falsy(value) THEN <<>>
  ELSE IF value.type = "array" THEN value.items
  ELSE <<ToStr(value)>>

\* JSON.stringify of an object, as axios sends it: a property whose value
\* is undefined is left out
Json(object) ==
  [k \in {k \in DOMAIN object : object[k] # Undefined} |-> object[k]]

\* ---- the payloads ----
\* a formatMoney that renders a missing amount as zero
formatMoneyZero(value) ==
  IF value = Undefined \/ value = Null \/ isNaN(value) THEN Str("0.00")
  ELSE Str(ToFixed2(Quotient(MathRound(Times(Quotient(value.milli, 1000), 100)), 100)))

formatMoney(value) ==
  IF value = Undefined \/ value = Null \/ isNaN(value) THEN Undefined
  ELSE Str(ToFixed2(Quotient(MathRound(Times(Quotient(value.milli, 1000), 100)), 100)))

MetafieldKeys ==
  <<"stock_id", "vat", "year", "mileage_km", "horsepower", "displacement_cc",
    "fuel", "transmission", "drivetrain", "body", "url">>

MetafieldType(k) ==
  IF k \in {"year", "mileage_km", "horsepower", "displacement_cc"}
  THEN "number_integer"
  ELSE IF k = "url" THEN "url" ELSE "single_line_text_field"

MetafieldValue(c, k) ==
  CASE k = "stock_id" -> c.stockId
    [] k = "vat" -> c.vatType
    [] k = "year" -> c.year
    [] k = "mileage_km" -> c.mileageKm
    [] k = "horsepower" -> c.horsepower
    [] k = "displacement_cc" -> c.displacementCc
    [] k = "fuel" -> c.fuel
    [] k = "transmission" -> c.transmission
    [] k = "drivetrain" -> c.drivetrain
    [] k = "body" -> c.body
    [] k = "url" -> c.url

\* a push that keeps the empty values too
RECURSIVE PushedFieldsAll(_, _)
PushedFieldsAll(c, n) ==
  IF n = 0 THEN <<>>
  ELSE LET k == MetafieldKeys[n]
       IN Append(PushedFieldsAll(c, n - 1),
                 [namespace |-> Str("specs"), key |-> Str(k),
                  value |-> Str(ToStr(MetafieldValue(c, k))),
                  type |-> Str(MetafieldType(k))])

\* the fields pushed for the first n keys
RECURSIVE PushedFields(_, _)
PushedFields(c, n) ==
  IF n = 0 THEN <<>>
  ELSE LET k == MetafieldKeys[n]
       IN IF MetafieldValue(c, k) \in {Undefined, Null, Str("")}
          THEN PushedFields(c, n - 1)
          ELSE Append(PushedFields(c, n - 1),
                      [namespace |-> Str("specs"), key |-> Str(k),
                       value |-> Str(ToStr(MetafieldValue(c, k))),
                       type |-> Str(MetafieldType(k))])

buildMetafields(c) == PushedFields(c, Len(MetafieldKeys))

\* car.features && car.features.length > 0 ? `<p>${car.features.join(', ')}</p>` : ''
bodyHtml(c) ==
  IF ~Falsy(c.features) /\ Len(c.features.items) > 0
  THEN "<p>" \o Join(c.features.items, ", ") \o "</p>"
  ELSE ""

\* the array the tags string is joined from
tagList(c) ==
  SelectSeq(Unique(ConcatOrEmpty(c.features) \o ConcatOrEmpty(c.fuel)
                   \o ConcatOrEmpty(c.transmission) \o ConcatOrEmpty(c.drivetrain)),
            LAMBDA t : t # "")

tags(c) == Join(tagList(c), ", ")

images(c) ==
  LET list == IF Falsy(c.images) THEN <<>> ELSE c.images.items
  IN [i \in 1..Len(list) |->
        Json([src |-> list[i].src, alt |-> Coalesce(list[i].alt, c.title)])]

\* a SKU that leaves the stock id out
skuOfPrefix(c) == "AWG-"

\* `AWG-${car.stockId}`
sku(c) == "AWG-" \o ToStr(c.stockId)

\* the body of POST products.json
createPayload(c) ==
  [product |-> Json(
     [title |-> c.title,
      vendor |-> Coalesce(c.brand, Str("")),
      product_type |-> Coalesce(c.body, Str("")),
      body_html |-> Str(bodyHtml(c)),
      tags |-> Str(tags(c)),
      variants |-> Arr(<<Json(
        [sku |-> Str(sku(c)),
         price |-> Coalesce(formatMoney(c.priceEur), Undefined),
         compare_at_price |-> Coalesce(formatMoney(c.compareAtPriceEur), Undefined),
         inventory_quantity |-> Num(1000),
         inventory_management |-> Str("shopify")])>>),
      images |-> Arr(images(c)),
      metafields |-> Arr(buildMetafields(c))])]

\* the body of PUT products/<productId>.json
productPayload(c, productId) ==
  [product |-> Json(
     [id |-> Num(1000 * productId),
      title |-> c.title,
      vendor |-> Coalesce(c.brand, Str("")),
      product_type |-> Coalesce(c.body, Str("")),
      body_html |-> Str(bodyHtml(c)),
      tags |-> Str(tags(c)),
      images |-> Arr(images(c)),
      metafields |-> Arr(buildMetafields(c))])]

\* the body of PUT variants/<variantId>.json
variantPayload(c, variantId) ==
  [variant |-> Json(
     [id |-> Num(1000 * variantId),
      price |-> Coalesce(formatMoney(c.priceEur), Undefined),
      compare_at_price |-> Coalesce(formatMoney(c.compareAtPriceEur), Undefined),
      sku |-> Str(sku(c))])]

\* ---- one sync, payload by payload ----
MaxMilli == 150       \* prices run over 0.000, 0.001, ... MaxMilli / 1000
MaxFeatures == 2      \* features of a car

Prices ==
  {Undefined, Null, NaN} \cup {Num(n) : n \in 0..MaxMilli}
    \cup {Num(12345600), Num(19999995)}
ComparePrices == {Undefined, Null, NaN, Num(19999995)}
FeatureStrings == {"", "Diesel", "ABS"}
FeatureLists ==
  {Undefined} \cup
  UNION {{Arr(f) : f \in [1..n -> FeatureStrings]} : n \in 0..MaxFeatures}

\* the identity keys of the cars: the crawler's stock ids are digit strings,
\* or the empty string when the page shows none
StockKeys == {Str("A"), Str("B"), Str("1"), Str("12"), Str("")}

BaseCar ==
  [stockId |-> Str("A"), title |-> Str("Dacia Duster"),
   url |-> Str("https://www.autoworldgrup.ro/stoc/dacia-duster-ID1"),
   brand |-> Str("Dacia"), year |-> Num(2019000), mileageKm |-> Num(85000000),
   horsepower |-> Num(115000), fuel |-> Str("Diesel"),
   transmission |-> Str("Manuala"), drivetrain |-> Str("4x4"),
   body |-> Str("SUV"), displacementCc |-> Num(1461000),
   priceEur |-> Num(12345600), compareAtPriceEur |-> Undefined,
   vatType |-> Str("deductibil"), features |-> Arr(<<"ABS">>),
   images |-> Arr(<<[src |-> Str("https://www.autoworldgrup.ro/uploads/1.jpg"),
                     alt |-> Undefined]>>)]

\* the dataset items the payloads are built from: the base car with every
\* pair of prices, and with every choice of features and attributes
Cars ==
  {[BaseCar EXCEPT !.priceEur = p, !.compareAtPriceEur = c] :
     p \in Prices, c \in ComparePrices}
  \cup
  {[BaseCar EXCEPT !.features = f, !.fuel = u, !.transmission = t,
                   !.drivetrain = d] :
     f \in FeatureLists, u \in {Undefined, Str(""), Str("Diesel")},
     t \in {Str(""), Str("Manuala")}, d \in {Null, Str("4x4"), Str("Diesel")}}
  \cup
  {[BaseCar EXCEPT !.stockId = k, !.vatType = v, !.year = y, !.body = b] :
     k \in StockKeys, v \in {Undefined, Null, Str(""), Str("deductibil")},
     y \in {Undefined, Null, Num(0), Num(2019000)},
     b \in {Undefined, Str("SUV")}}

\* createOrUpdateProduct is called with one of the cars
InitRequest ==
  /\ ImporterInit
  /\ remote = NoShop
  /\ configured = TRUE
  /\ importAuthToken = AuthToken
  /\ NoCrawl
  /\ car \in Cars
  /\ request = NoRequest

\* no row for the car: the create call is built and sent
CreateRequest ==
  /\ request = NoRequest
  /\ request' = [method |-> "post", endpoint |-> "products.json",
                 data |-> createPayload(car)]
  /\ UNCHANGED <<db, loopVars, limiterVars, cur, reported, restarts,
                 mappedAtRestart, configured, importAuthToken, crawlVars, remote, car>>

\* a row for the car: the product update is built and sent
UpdateProductRequest(productId) ==
  /\ request = NoRequest
  /\ request' = [method |-> "put",
                 endpoint |-> "products/" \o ToString(productId) \o ".json",
                 data |-> productPayload(car, productId)]
  /\ UNCHANGED <<db, loopVars, limiterVars, cur, reported, restarts,
                 mappedAtRestart, configured, importAuthToken, crawlVars, remote, car>>

\* the product update has succeeded and the row has a variant id: the
\* variant update is built and sent
UpdateVariantRequest(variantId) ==
  /\ request # NoRequest
  /\ "product" \in DOMAIN request.data /\ request.method = "put"
  /\ request' = [method |-> "put",
                 endpoint |-> "variants/" \o ToString(variantId) \o ".json",
                 data |-> variantPayload(car, variantId)]
  /\ UNCHANGED <<db, loopVars, limiterVars, cur, reported, restarts,
                 mappedAtRestart, configured, importAuthToken, crawlVars, remote, car>>

RequestNext ==
  \/ CreateRequest
  \/ UpdateProductRequest(ProductIdOf(1, 1))
  \/ UpdateVariantRequest(VariantIdOf(1, 1))

SpecRequest == InitRequest /\ [][RequestNext]_vars

\* ---- one sync, from its lookup to its calls ----
\* createOrUpdateProduct for one car, as request 1; the table is empty at
\* first and other syncs store mappings at any moment
SyncKeys == {"A", "B", ""}
SyncCars == {[BaseCar EXCEPT !.stockId = Str(k)] : k \in SyncKeys}
RivalIds == {[productId |-> ProductIdOf(r, 1), variantId |-> VariantIdOf(r, 1)] :
               r \in {2, 3}}

InitSync ==
  /\ ImporterInit
  /\ remote = NoShop
  /\ configured = TRUE
  /\ importAuthToken = AuthToken
  /\ NoCrawl
  /\ car \in SyncCars
  /\ request = NoRequest

\* another sync stores a mapping
RivalSetMapping(k, ids) ==
  /\ db' = setMapping(k, ids.productId, ids.variantId)
  /\ UNCHANGED <<loopVars, limiterVars, cur, reported, restarts,
                 mappedAtRestart, configured, importAuthToken, crawlVars,
                 remote, requestVars>>

\* const mapping = await getMapping(car.stockId)
SyncLookup ==
  /\ pc[1] = "idle"
  /\ key' = [key EXCEPT ![1] = ToStr(car.stockId)]
  /\ mapping' = [mapping EXCEPT ![1] = getMapping(ToStr(car.stockId))]
  /\ pc' = [pc EXCEPT ![1] =
       IF getMapping(ToStr(car.stockId)).productId = 0
       THEN "create" ELSE "updateProduct"]
  /\ UNCHANGED <<db, total, idx, created, updated, failed, response, newIds,
                 logged, limiterVars, cur, reported, restarts,
                 mappedAtRestart, configured, importAuthToken, crawlVars,
                 remote, requestVars>>

\* if (!mapping.productId): the create call
SyncCreate == pc[1] = "create" /\ CreateRequest

\* else: the product update with the product id of the mapping
SyncUpdateProduct ==
  pc[1] = "updateProduct" /\ UpdateProductRequest(mapping[1].productId)

\* a variant update that is sent to the product id
SyncUpdateVariantOfProduct ==
  /\ pc[1] = "updateProduct"
  /\ mapping[1].variantId # 0
  /\ UpdateVariantRequest(mapping[1].productId)

\* if (variantId): the variant update with the variant id of the mapping
SyncUpdateVariant ==
  /\ pc[1] = "updateProduct"
  /\ mapping[1].variantId # 0
  /\ UpdateVariantRequest(mapping[1].variantId)

NextSync ==
  \/ \E k \in SyncKeys, ids \in RivalIds : RivalSetMapping(k, ids)
  \/ SyncLookup
  \/ SyncCreate
  \/ SyncUpdateProduct
  \/ SyncUpdateVariant

SpecSync == InitSync /\ [][NextSync]_vars

\* ---- the crawler ----
\* One run of the PlaywrightCrawler: the request queue, the handlers (at most
\* maxConcurrency at a time, interleaved at their awaits), the two sets and
\* the dataset.  A listing URL is its page parameter p (NoParam without
\* one), a detail URL a number.
NumDetailUrls == 2     \* detail URLs of the site
MaxCrawlErrors == 1    \* handler invocations that throw in one run
MAX_PAGES == 20
maxConcurrency == 2
NoParam == -1
DetailUrls == 1..NumDetailUrls
SiteStockIds == {"7", "8"}
ShownIds == SiteStockIds \cup {""}
ListingPages == {NoParam} \cup (0..MAX_PAGES + 2)
BaseUrls == {NoParam, MAX_PAGES - 2, MAX_PAGES + 1}
Listing(p) == [label |-> "", url |-> p]
Detail(u) == [label |-> "DETAIL", url |-> u]
Handler(req, at, id) == [request |-> req, pc |-> at, stockId |-> id]
Requests == {Listing(p) : p \in ListingPages} \cup {Detail(u) : u \in DetailUrls}
\* the handlers, by the await they are suspended at
Loading == {Handler(Listing(p), "listing", NoKey) : p \in ListingPages}
Paging == {Handler(Listing(p), "nextPage", NoKey) : p \in ListingPages}
Parsing == {Handler(Detail(u), "detail", NoKey) : u \in DetailUrls}
Pushing == {Handler(Detail(u), "push", id) : u \in DetailUrls, id \in ShownIds}

importerVars == <<db, loopVars, limiterVars, cur, reported, restarts,
                  mappedAtRestart, configured, importAuthToken, remote,
                  requestVars>>

\* crawler.run([{ url: baseUrl }])
InitCrawl ==
  /\ ImporterInit
  /\ remote = NoShop
  /\ configured = TRUE
  /\ importAuthToken = AuthToken
  /\ car = NoCar
  /\ request = NoRequest
  /\ \E b \in BaseUrls :
       /\ requestQueue = {Listing(b)}
       /\ known = {Listing(b)}
  /\ running = {}
  /\ seenStockIds = {}
  /\ visitedListingUrls = {}
  /\ dataset = [id \in ShownIds |-> 0]
  /\ resolved = [id \in ShownIds |-> 0]
  /\ extractions = [p \in ListingPages |-> 0]
  /\ crawlErrors = 0

\* addRequests: the queue keeps one request per URL
addRequests(reqs) ==
  /\ requestQueue' = requestQueue \cup (reqs \ known)
  /\ known' = known \cup reqs

\* a handler that returns
Return(h) == running' = running \ {h}

\* a handler that goes on to its next await
Goto(h, at, id) == running' = (running \ {h}) \cup {Handler(h.request, at, id)}

\* the crawler takes a request while fewer than maxConcurrency handlers
\* run; the handler of a listing page returns at once for a visited URL,
\* marks the URL and loads the page otherwise; the handler of a detail
\* page loads the page
StartHandler(req) ==
  /\ req \in requestQueue
  /\ Cardinality(running) < maxConcurrency
  /\ requestQueue' = requestQueue \ {req}
  /\ IF req.label = ""
     THEN IF req.url \in visitedListingUrls
          THEN UNCHANGED <<running, visitedListingUrls>>
          ELSE /\ visitedListingUrls' = visitedListingUrls \cup {req.url}
               /\ running' = running \cup {Handler(req, "listing", NoKey)}
     ELSE /\ running' = running \cup {Handler(req, "detail", NoKey)}
          /\ UNCHANGED visitedListingUrls
  /\ UNCHANGED <<known, seenStockIds, dataset, resolved, extractions,
                 crawlErrors, importerVars>>

\* the listing page is loaded and scrolled: its detail links are extracted
\* and added
ListingLoaded(h, links) ==
  /\ h \in running
  /\ h.pc = "listing"
  /\ extractions' = [extractions EXCEPT ![h.request.url] = @ + 1]
  /\ addRequests({Detail(u) : u \in links})
  /\ Goto(h, "nextPage", NoKey)
  /\ UNCHANGED <<seenStockIds, visitedListingUrls, dataset, resolved,
                 crawlErrors, importerVars>>

\* pageParam ? parseInt(pageParam, 10) : 1
currentPageNum(url) == IF url = NoParam THEN 1 ELSE url

\* a listing handler that follows the next page whatever its number
NextPageUnbounded(h) ==
  /\ h \in running
  /\ h.pc = "nextPage"
  /\ LET nextPageNum == currentPageNum(h.request.url) + 1
     IN IF nextPageNum \notin visitedListingUrls
        THEN addRequests({Listing(nextPageNum)})
        ELSE UNCHANGED <<requestQueue, known>>
  /\ Return(h)
  /\ UNCHANGED <<seenStockIds, visitedListingUrls, dataset, resolved,
                 extractions, crawlErrors, importerVars>>

\* the next listing page is added when its number is at most MAX_PAGES and
\* its URL is not visited; the handler returns
NextPage(h) ==
  /\ h \in running
  /\ h.pc = "nextPage"
  /\ LET nextPageNum == currentPageNum(h.request.url) + 1
     IN IF nextPageNum <= MAX_PAGES /\ nextPageNum \notin visitedListingUrls
        THEN addRequests({Listing(nextPageNum)})
        ELSE UNCHANGED <<requestQueue, known>>
  /\ Return(h)
  /\ UNCHANGED <<seenStockIds, visitedListingUrls, dataset, resolved,
                 extractions, crawlErrors, importerVars>>

\* a detail handler that tests seenStockIds and leaves the adding out
DetailLoadedNotAdding(h, stockId) ==
  /\ h \in running
  /\ h.pc = "detail"
  /\ stockId # ""
  /\ resolved' = [resolved EXCEPT ![stockId] = @ + 1]
  /\ IF stockId \in seenStockIds
     THEN Return(h)
     ELSE Goto(h, "push", stockId)
  /\ UNCHANGED <<requestQueue, known, seenStockIds, visitedListingUrls,
                 dataset, extractions, crawlErrors, importerVars>>

\* the detail page is loaded and shows the stock id stockId: the handler
\* returns for a seen id; otherwise it adds the id, builds the record and
\* pushes it
DetailLoaded(h, stockId) ==
  /\ h \in running
  /\ h.pc = "detail"
  /\ stockId # ""
  /\ resolved' = [resolved EXCEPT ![stockId] = @ + 1]
  /\ IF stockId \in seenStockIds
     THEN Return(h) /\ UNCHANGED seenStockIds
     ELSE /\ seenStockIds' = seenStockIds \cup {stockId}
          /\ Goto(h, "push", stockId)
  /\ UNCHANGED <<requestQueue, known, visitedListingUrls, dataset,
                 extractions, crawlErrors, importerVars>>

\* the detail page shows no stock id and its URL has none: part_004 returns
\* without a record, main.ts pushes the record without looking at the set
DetailWithoutStockId(h, pushes) ==
  /\ h \in running
  /\ h.pc = "detail"
  /\ resolved' = [resolved EXCEPT ![""] = @ + 1]
  /\ IF pushes THEN Goto(h, "push", "") ELSE Return(h)
  /\ UNCHANGED <<requestQueue, known, seenStockIds, visitedListingUrls,
                 dataset, extractions, crawlErrors, importerVars>>

\* Dataset.pushData has stored the record
DetailPushed(h) ==
  /\ h \in running
  /\ h.pc = "push"
  /\ dataset' = [dataset EXCEPT ![h.stockId] = @ + 1]
  /\ Return(h)
  /\ UNCHANGED <<requestQueue, known, seenStockIds, visitedListingUrls,
                 resolved, extractions, crawlErrors, importerVars>>

\* an await of the handler throws (page.goto, page.content, addRequests of
\* the detail links, Dataset.pushData): the crawler puts the request back
\* for another attempt
HandlerError(h) ==
  /\ h \in running
  /\ h.pc \in {"listing", "detail", "push"}
  /\ crawlErrors < MaxCrawlErrors
  /\ crawlErrors' = crawlErrors + 1
  /\ requestQueue' = requestQueue \cup {h.request}
  /\ Return(h)
  /\ UNCHANGED <<known, seenStockIds, visitedListingUrls, dataset, resolved,
                 extractions, importerVars>>

NextCrawl ==
  \/ \E req \in Requests : StartHandler(req)
  \/ \E h \in Loading, links \in SUBSET DetailUrls : ListingLoaded(h, links)
  \/ \E h \in Paging : NextPage(h)
  \/ \E h \in Parsing, stockId \in SiteStockIds : DetailLoaded(h, stockId)
  \/ \E h \in Parsing, pushes \in BOOLEAN : DetailWithoutStockId(h, pushes)
  \/ \E h \in Pushing : DetailPushed(h)
  \/ \E h \in Loading \cup Parsing \cup Pushing : HandlerError(h)

SpecCrawl == InitCrawl /\ [][NextCrawl]_vars

\* ---- the claims ----
Executing == {r \in Runs : job[r] = "executing"}
UpdateBranch == {"updateProduct", "updateVariant"}
Mapped(d) == {row.stock_id : row \in d}
RowsIn(d, stockId) == {row \in d : row.stock_id = stockId}

\* C1: of two syncs for the same stock id that are between their lookup and
\* their return at the same time, at most one returns created: true, and the
\* table then holds one row for the stock id.  Stated for two syncs whose
\* create replies both carried a product id and a variant id: a sync whose
\* rival has stored its mapping and returned created: true does not go on to
\* store a mapping and return created: true itself.
C1_AtMostOneCreated ==
  [][\A r \in Runs : cur[r].rival /\ pc[r] = "setMapping" =>
        /\ created'[r] # created[r] + 1
        /\ Cardinality(RowsIn(db', key[r])) = 1]_vars

\* C2: a sync that looks a stock id up after an earlier sync for that stock
\* id has returned created: true, and that returns without an error, returns
\* updated, and the table holds one row for the stock id when it returns
\* (no restart in between).
C2_SecondSyncUpdates ==
  [][\A r \in Runs :
        /\ cur[r].prev /\ restarts' = 0
        /\ pc[r] \in InFlight /\ pc'[r] \notin InFlight
        /\ failed'[r] = failed[r]
        => /\ updated'[r] = updated[r] + 1
           /\ Cardinality(RowsIn(db', key[r])) = 1]_vars

\* C3: a failing remote call costs the request one failed record and nothing
\* else: the loop goes on with the next record, and a request answers only
\* after its loop has counted every record, with total = items.length and
\* created + updated + failed = total.
C3_FailureIsolated ==
  [][/\ \A r \in Runs : CreateError(r) \/ UpdateError(r) =>
          /\ failed'[r] = failed[r] + 1
          /\ created'[r] = created[r]
          /\ updated'[r] = updated[r]
          /\ pc'[r] = IF idx[r] < total[r] THEN "getMapping" ELSE "done"
     /\ \A r \in Runs : pc'[r] = "done" =>
          /\ response'[r].ok
          /\ idx'[r] = total'[r] + 1
          /\ response'[r].total = total'[r]
          /\ response'[r].created + response'[r].updated + response'[r].failed
               = total'[r]]_vars

\* a request of three records has answered: one record failed on a remote
\* call, the two others were created or updated
C3_Witness ==
  \E r \in Runs :
    /\ pc[r] = "done" /\ total[r] = 3
    /\ failed[r] = 1 /\ logged[r] \in {"create", "update"}
    /\ created[r] + updated[r] = 2

\* C4: at most maxConcurrent calls to the Admin API are outstanding, over all
\* the requests in progress.
C4_MaxOutstanding == Cardinality(Executing) <= maxConcurrent

\* maxConcurrent calls are outstanding and a further one waits in the queue
C4_Witness == Cardinality(Executing) = maxConcurrent /\ queue # <<>>

\* C5: a call is sent at least minTime after the call sent before it.
C5_MinSpacing == lastGap >= minTime

\* two calls of two requests are outstanding, the later one sent just now
C5_Witness ==
  \E r, s \in Runs : r # s /\ {r, s} \subseteq Executing /\ sinceDispatch = 0

\* C6: a failing create call makes the sync fail and leaves the table as it
\* was; the table never holds a row for a stock id no sync returned
\* created: true for, nor a row that lacks an id.
C6_FailedCreateWritesNothing ==
  [][/\ \A r \in Runs : CreateError(r) =>
          db' = db /\ failed'[r] = failed[r] + 1 /\ created'[r] = created[r]
     /\ Mapped(db') \subseteq reported'
     /\ \A row \in db' : row.product_id # 0 /\ row.variant_id # 0]_vars

\* a create call has failed and the table is empty
C6_Witness ==
  \E r \in Runs : logged[r] = "create" /\ failed[r] >= 1 /\ db = {}

\* C7: a stock id for which a sync has returned created: true has a row.
C7_CreatedIsMapped == \A k \in reported : Rows(k) # {}

\* C8: a restart keeps the table and empties the limiter; after it, a sync for
\* a stock id that had a row at the restart takes the update branch and does
\* not return created: true.
C8_RestartKeepsMappings ==
  [][/\ restarts' # restarts =>
          /\ db' = db
          /\ queue' = <<>> /\ nextWait' = 0
          /\ \A r \in Runs : job'[r] = "none"
     /\ \A r \in Runs : key'[r] \in mappedAtRestart' => pc'[r] \in UpdateBranch
     /\ \A r \in Runs : key[r] \in mappedAtRestart =>
          created'[r] # created[r] + 1]_vars

\* after a restart one request of one record has answered updated: 1, and no
\* other request has arrived since the restart
C8_Witness ==
  /\ restarts > 0
  /\ \E r \in Runs :
       /\ pc[r] = "done" /\ total[r] = 1 /\ updated[r] = 1
       /\ \A s \in Runs \ {r} : pc[s] \in {"idle", "killed"}

\* C9: a step of a sync in the update branch, successful or not, leaves the
\* table as it is.
C9_UpdateKeepsMapping ==
  [][\A r \in Runs :
        /\ pc[r] \in UpdateBranch
        /\ pc'[r] # pc[r] \/ job'[r] # job[r]
        /\ restarts' = restarts
        => db' = db]_vars

\* a request has had one update fail and another succeed, and the table has rows
C9_Witness ==
  \E r \in Runs : logged[r] = "update" /\ updated[r] >= 1 /\ db # {}

\* C10: no two syncs for the same stock id are between their lookup and
\* their return at the same time.
C10_PerKeySerial ==
  \A r, s \in Runs :
    r # s /\ pc[r] \in InFlight /\ pc[s] \in InFlight => key[r] # key[s]

\* C11: an item without a stock id never reaches createOrUpdateProduct: no
\* sync is ever in progress for the empty stock id, no row is stored under
\* it and no sync returns created: true for it.
C11_EmptyKeyDropped ==
  /\ \A r \in Runs : key[r] # EmptyKey
  /\ Rows(EmptyKey) = {}
  /\ EmptyKey \notin reported

\* C12: without SHOPIFY_SHOP or SHOPIFY_ADMIN_TOKEN no record is processed:
\* no sync looks a stock id up or hands a call to the limiter, and no
\* request counts a record as created, updated or failed.
C12_ConfigErrorIsFatal ==
  ~configured =>
    \A r \in Runs :
      /\ key[r] = NoKey /\ pc[r] \notin InFlight /\ job[r] = "none"
      /\ created[r] + updated[r] + failed[r] = 0

\* C13: the table holds at most one row per stock id; setMapping(k, p, v)
\* leaves exactly the row (k, p, v) for k, whatever row k had before, leaves
\* the rows of the other stock ids as they were, and executing it once more
\* leaves the table as it is.
C13_OneRowPerKey ==
  [][/\ \A k \in ItemKeys : Cardinality(RowsIn(db', k)) <= 1
     /\ \A r \in Runs, k \in ItemKeys, i \in 1..MaxRecords :
          k = key[r] /\ i = idx[r] /\ SetMapping(r) =>
            LET p == ProductIdOf(r, i)
                v == VariantIdOf(r, i)
            IN /\ RowsIn(db', k) = {[stock_id |-> k, product_id |-> p, variant_id |-> v]}
               /\ \A j \in ItemKeys \ {k} : RowsIn(db', j) = RowsIn(db, j)
               /\ (setMapping(k, p, v))' = db']_vars

\* a row has been replaced: a sync in the update branch holds the mapping it
\* looked up, and the table now holds another row for its stock id
C13_Witness ==
  \E r \in Runs :
    /\ pc[r] \in UpdateBranch
    /\ Cardinality(Rows(key[r])) = 1
    /\ getMapping(key[r]) # mapping[r]

\* C14: no step of the importer (a sync, a batch, a restart) removes the row
\* of a stock id: a stock id that has a row has one after every step.
C14_NeverDeletes ==
  [][\A k \in ItemKeys : RowsIn(db, k) # {} => RowsIn(db', k) # {}]_vars

\* after a restart a request has had an update fail and has answered, and
\* the table still holds rows
C14_Witness ==
  /\ restarts > 0
  /\ db # {}
  /\ \E r \in Runs : pc[r] = "done" /\ failed[r] >= 1 /\ logged[r] = "update"

\* C15: when the lookup of a sync fails, the sync fails: the request counts
\* one more failed record and nothing else, no call is handed to the limiter
\* for the record, and the table is left as it is.
C15_LookupErrorFails ==
  [][\A r \in Runs : GetMappingError(r) =>
        /\ failed'[r] = failed[r] + 1
        /\ created'[r] = created[r] /\ updated'[r] = updated[r]
        /\ pc'[r] \notin InFlight
        /\ job'[r] = "none" /\ queue' = queue /\ nextWait' = nextWait
        /\ db' = db]_vars

\* a request of one record has answered failed: 1 after a failed lookup,
\* with rows in the table
C15_Witness ==
  \E r \in Runs :
    /\ pc[r] = "done" /\ total[r] = 1
    /\ failed[r] = 1 /\ logged[r] = "lookup"
    /\ db # {}

\* C16: the body a request answers with holds the list of its failures, one
\* entry with its reason for every record counted as failed.
C16_FailuresListed ==
  \A r \in Runs : pc[r] = "done" /\ response[r].failed > 0 =>
    /\ "failures" \in DOMAIN response[r]
    /\ Len(response[r].failures) = response[r].failed

\* C17: while a request is in its loop, the records it has gone through are
\* counted once each: created + updated + failed is the number of records
\* behind the loop position and no counter ever goes down; the body it
\* answers with carries these counters and total = items.length, and they
\* sum to total.
C17_CountersSum ==
  [][\A r \in Runs :
        /\ Alive(r)' =>
             /\ created'[r] + updated'[r] + failed'[r] = idx'[r] - 1
             /\ idx'[r] <= total'[r] + 1
        /\ Alive(r) /\ Alive(r)' =>
             /\ created'[r] >= created[r]
             /\ updated'[r] >= updated[r]
             /\ failed'[r] >= failed[r]
        /\ pc'[r] = "done" =>
             /\ response'[r].total = total'[r]
             /\ response'[r].created = created'[r]
             /\ response'[r].updated = updated'[r]
             /\ response'[r].failed = failed'[r]
             /\ created'[r] + updated'[r] + failed'[r] = total'[r]]_vars

\* a request of three records has answered with one record created, one
\* updated and one failed
C17_Witness ==
  \E r \in Runs :
    /\ pc[r] = "done" /\ response[r].total = 3
    /\ response[r].created = 1 /\ response[r].updated = 1
    /\ response[r].failed = 1

\* the variant object of the request, for the two requests that carry one
HasVariant ==
  request # NoRequest /\
    (request.endpoint = "products.json" \/ "variant" \in DOMAIN request.data)
VariantOf(req) ==
  IF req.endpoint = "products.json" THEN req.data.product.variants.items[1]
  ELSE req.data.variant
PriceFields == {<<"price", "priceEur">>, <<"compare_at_price", "compareAtPriceEur">>}
Absent(value) == value \in {Undefined, Null, NaN}

\* milli / 1000 rounded to the nearest hundredth in fixed point, a tie going
\* up, with two decimals
FixedPoint2(milli) ==
  ToString(((milli + 5) \div 10) \div 100) \o "." \o Pad2(((milli + 5) \div 10) % 100)

\* C18: an amount that is present and not NaN is sent as the amount rounded
\* to the nearest hundredth, with two decimals: the string the fixed-point
\* rounding of the decimal amount gives.
C18_MoneyRoundsToHundredth ==
  HasVariant =>
    \A f \in PriceFields :
      ~Absent(car[f[2]]) =>
        /\ f[1] \in DOMAIN VariantOf(request)
        /\ VariantOf(request)[f[1]] = Str(FixedPoint2(car[f[2]].milli))

\* C19: a price or comparison price that is undefined, null or NaN has no
\* property in the variant of the create request and of the variant update.
C19_AbsentPriceOmitted ==
  HasVariant =>
    \A f \in PriceFields :
      Absent(car[f[2]]) => f[1] \notin DOMAIN VariantOf(request)

\* a create request was built for a car whose price is null and whose
\* comparison price is NaN: its variant has the three other properties only
C19_Witness ==
  /\ request # NoRequest
  /\ request.endpoint = "products.json"
  /\ car.priceEur = Null /\ car.compareAtPriceEur = NaN
  /\ DOMAIN VariantOf(request) = {"sku", "inventory_quantity", "inventory_management"}

\* the non-empty strings among the features and the three attributes
ExpectedTags(c) ==
  ((IF c.features = Undefined THEN {}
    ELSE {c.features.items[i] : i \in 1..Len(c.features.items)})
   \cup {v.s : v \in {x \in {c.fuel, c.transmission, c.drivetrain} :
                        x.type = "string"}}) \ {""}

\* the ways of listing the elements of S once each
Orderings(S) ==
  {f \in [1..Cardinality(S) -> S] : \A x \in S : \E i \in DOMAIN f : f[i] = x}

\* C20: the tags of a product request are the non-empty strings among the
\* car's features, fuel, transmission and drivetrain, each listed once.
C20_TagsAreUnion ==
  request # NoRequest /\ "product" \in DOMAIN request.data =>
    \E f \in Orderings(ExpectedTags(car)) :
      request.data.product.tags = Str(Join(f, ", "))

\* a create request was built for a car that has "Diesel" as a feature, as
\* its fuel and as its drivetrain, and an empty transmission
C20_Witness ==
  /\ request # NoRequest
  /\ request.endpoint = "products.json"
  /\ car.features = Arr(<<"Diesel", "ABS">>)
  /\ car.fuel = Str("Diesel") /\ car.drivetrain = Str("Diesel")
  /\ car.transmission = Str("")
  /\ request.data.product.tags = Str("Diesel, ABS")

\* the known attributes: the metafield key and the property of the car it
\* is read from
KnownAttributes ==
  {<<"stock_id", "stockId">>, <<"vat", "vatType">>, <<"year", "year">>,
   <<"mileage_km", "mileageKm">>, <<"horsepower", "horsepower">>,
   <<"displacement_cc", "displacementCc">>, <<"fuel", "fuel">>,
   <<"transmission", "transmission">>, <<"drivetrain", "drivetrain">>,
   <<"body", "body">>, <<"url", "url">>}
Empty(value) == value \in {Undefined, Null, Str("")}
IsProductRequest == request # NoRequest /\ "product" \in DOMAIN request.data
Metafields == request.data.product.metafields.items

\* C21: the metafields of a product request have at most one entry per
\* known attribute, every entry is in the namespace "specs", and an
\* attribute has an entry exactly when its value in the car is not
\* undefined, null or the empty string.
C21_MetafieldsPerAttribute ==
  IsProductRequest =>
    /\ \A i \in DOMAIN Metafields : Metafields[i].namespace = Str("specs")
    /\ \A i, j \in DOMAIN Metafields :
         Metafields[i].key = Metafields[j].key => i = j
    /\ {Metafields[i].key : i \in DOMAIN Metafields}
         = {Str(a[1]) : a \in {a \in KnownAttributes : ~Empty(car[a[2]])}}

\* a create request was built for a car that has some attributes filled
\* (the year is 0), a null VAT type, an empty stock id and no body: its
\* metafields hold the filled ones only
C21_Witness ==
  /\ request # NoRequest
  /\ request.endpoint = "products.json"
  /\ car.stockId = Str("") /\ car.vatType = Null /\ car.body = Undefined
  /\ car.year = Num(0)
  /\ Len(Metafields) = 8
  /\ \E i \in DOMAIN Metafields :
       Metafields[i].key = Str("year") /\ Metafields[i].value = Str("0")

\* the SKU the create request for car c carries
CreateSku(c) == createPayload(c).product.variants.items[1].sku

\* cars to compare the car with: the car itself and a car that differs in
\* its other properties, under every stock id
Peers ==
  {[c EXCEPT !.stockId = k] :
     c \in {car, [BaseCar EXCEPT !.title = Str("Skoda Octavia"),
                                 !.priceEur = Undefined, !.fuel = Null]},
     k \in StockKeys}

\* C22: a create request carries exactly one variant; its SKU is the SKU of
\* the create request of every car with the same stock id and of no car with
\* another stock id; the variant update of the car carries the same SKU.
C22_SkuFromKey ==
  request # NoRequest =>
    /\ request.endpoint = "products.json" =>
         /\ Len(request.data.product.variants.items) = 1
         /\ "sku" \in DOMAIN VariantOf(request)
         /\ \A c \in Peers :
              c.stockId = car.stockId <=> CreateSku(c) = VariantOf(request).sku
    /\ "variant" \in DOMAIN request.data =>
         /\ "sku" \in DOMAIN request.data.variant
         /\ request.data.variant.sku = CreateSku(car)

\* the variant update was built for the car with stock id "1", while other
\* cars have the stock id "12": it carries the SKU "AWG-1"
C22_Witness ==
  /\ request # NoRequest
  /\ request.endpoint = "variants/111.json"
  /\ car.stockId = Str("1")
  /\ request.data.variant.sku = Str("AWG-1")
  /\ \E c \in Peers : c.stockId = Str("12") /\ CreateSku(c) = Str("AWG-12")

\* C23: a POST /import request passes the check and is processed (its
\* dataset is fetched and its loop started) only if IMPORT_AUTH_TOKEN is set
\* and the request's Authorization header is "Bearer " followed by it.
C23_OnlyWithToken ==
  [][\A r \in Runs, n \in 1..MaxRecords, authHeader \in Headers :
       StartImport(r, n, authHeader) =>
         importAuthToken # "" /\ authHeader = "Bearer " \o importAuthToken]_vars

\* C24: in one crawl run at most one record per stock id is pushed to the
\* dataset, however many detail pages show that stock id and however the
\* (at most maxConcurrency) handlers interleave.
C24_OneRecordPerStockId ==
  \A id \in SiteStockIds : id \in DOMAIN dataset => dataset[id] <= 1

\* the run is over; two or more detail pages showed the stock id "7" and the
\* dataset holds one record for it
C24_Witness ==
  /\ known # {} /\ requestQueue = {} /\ running = {}
  /\ resolved["7"] >= 2
  /\ dataset["7"] = 1

\* C25: a listing page added by a handler has a page number of at most
\* MAX_PAGES, and the links of a listing URL are extracted at most once.
C25_PagesBounded ==
  [][/\ \A req \in known' \ known : req.label = "" => req.url <= MAX_PAGES
     /\ \A p \in DOMAIN extractions' : extractions'[p] <= 1]_vars

\* a run from the base URL is over: the pages 2 to MAX_PAGES were followed,
\* each extracted once, and no page after MAX_PAGES was added
C25_Witness ==
  /\ Listing(NoParam) \in known /\ requestQueue = {} /\ running = {}
  /\ visitedListingUrls = {NoParam} \cup (2..MAX_PAGES)
  /\ \A p \in visitedListingUrls : extractions[p] = 1
  /\ Listing(MAX_PAGES + 1) \notin known

\* the row the table held for the car when the sync looked it up
Found == mapping[1]
Sent == request' # request

\* C26: the sync sends the create call only if its lookup found no mapping
\* and it has sent nothing before; it sends an update only if its lookup
\* found a mapping and it has sent no create; the product update goes to the
\* product id of the mapping found and the variant update to its variant id,
\* whatever the table holds by then.
C26_CallsFollowLookup ==
  [][Sent =>
       /\ pc[1] # "idle"
       /\ request'.endpoint = "products.json" =>
            Found.productId = 0 /\ request = NoRequest
       /\ request'.method = "put" =>
            /\ Found.productId # 0
            /\ request = NoRequest \/ request.method = "put"
       /\ "product" \in DOMAIN request'.data /\ request'.method = "put" =>
            /\ request'.endpoint = "products/" \o ToString(Found.productId) \o ".json"
            /\ request'.data.product.id = Num(1000 * Found.productId)
       /\ "variant" \in DOMAIN request'.data =>
            /\ request'.endpoint = "variants/" \o ToString(Found.variantId) \o ".json"
            /\ request'.data.variant.id = Num(1000 * Found.variantId)]_vars

\* the variant update was sent to the variant id the lookup found, after
\* another sync had replaced the row of the car
C26_Witness ==
  /\ request # NoRequest
  /\ "variant" \in DOMAIN request.data
  /\ request.endpoint = "variants/" \o ToString(Found.variantId) \o ".json"
  /\ getMapping(ToStr(car.stockId)) # Found

\* the products the shop holds for a stock id
Products(shop, stockId) == {e \in shop.products : e.stock_id = stockId}

\* C27: when the mapping write after a successful create fails, or the
\* process stops before it, the shop holds the product and the table holds
\* no row for it; a later lookup for a stock id that has a product in the
\* shop and no row in the table takes the create branch, and when that
\* create is answered the shop holds one more product for the stock id.
C27_OrphanIsRecreated ==
  [][\A r \in Runs :
       /\ pc[r] = "setMapping" /\ (SetMappingError(r) \/ Restart) =>
            /\ \E e \in Products(remote', key[r]) :
                 e.product_id = newIds[r].productId
            /\ \A row \in db' : row.product_id # newIds[r].productId
       /\ \A k \in ItemKeys :
            GetMapping(r, k) /\ Products(remote, k) # {} /\ RowsIn(db, k) = {}
              => pc'[r] = "create"
       /\ pc[r] = "create" /\ pc'[r] # "create" /\ remote' # remote =>
            Cardinality(Products(remote', key[r]))
              = Cardinality(Products(remote, key[r])) + 1]_vars

\* one request alone, no restart: the write for its first record of stock
\* id "A" failed, its next record of the same stock id was created again,
\* and the shop holds two products for "A"
C27_Witness ==
  \E r \in Runs :
    /\ \A s \in Runs \ {r} : pc[s] = "idle"
    /\ restarts = 0
    /\ logged[r] = "store" /\ failed[r] = 1 /\ created[r] = 1 /\ updated[r] = 0
    /\ Products(remote, EmptyKey) = {}
    /\ Cardinality(Products(remote, "A")) = 2
    /\ Cardinality(RowsIn(db, "A")) = 1

\* C28: a call handed to the limiter is sent in the end, provided every
\* call that was sent settles: a job that waits in the queue or for its
\* start timer comes to run, unless the process stops first.
C28_Dispatched ==
  \A r \in Runs :
    job[r] \in {"queued", "running"} ~> (job[r] = "executing" \/ pc[r] = "killed")

\* a call waits in the limiter's queue while maxConcurrent calls are
\* admitted
C28_Witness ==
  \E r \in Runs :
    /\ job[r] = "queued"
    /\ Cardinality(Running(job)) = maxConcurrent

\* C29: a request whose batch is fetched answers in the end, provided the
\* calls and the store's operations return, unless the process stops first;
\* when it answers, its loop has passed every record and the counts of its
\* answer add up to the number of records.
C29_BatchFinishes ==
  \A r \in Runs :
    pc[r] \in {"getMapping"} \cup InFlight ~>
      \/ pc[r] = "killed"
      \/ /\ pc[r] = "done"
         /\ idx[r] = total[r] + 1
         /\ response[r].total = total[r]
         /\ response[r].created + response[r].updated + response[r].failed
              = total[r]

\* two requests have answered, one for two records and one for one; the
\* process was not restarted
C29_Witness ==
  /\ restarts = 0
  /\ \E r, s \in Runs :
       /\ pc[r] = "done" /\ response[r].total = 2
       /\ pc[s] = "done" /\ response[s].total = 1

\* C30: a call that the Admin API rejects (a 429 as any other status) is not
\* sent again: at the rejection the record is counted as failed, the request
\* has no job left in the limiter, its loop is past the record, and the
\* table is as it was.
C30_RejectionNotRetried ==
  [][\A r \in Runs : CreateError(r) \/ UpdateError(r) =>
        /\ failed'[r] = failed[r] + 1
        /\ job'[r] = "none" /\ r \notin {queue'[i] : i \in DOMAIN queue'}
        /\ idx'[r] = idx[r] + 1
        /\ pc'[r] \in {"getMapping", "done"}
        /\ db' = db]_vars

\* a request of one record has answered failed: 1 after the update of a
\* mapped product was rejected; the row is still in the table
C30_Witness ==
  \E r \in Runs :
    /\ pc[r] = "done" /\ response[r].total = 1 /\ response[r].failed = 1
    /\ logged[r] = "update"
    /\ job[r] = "none"
    /\ db # {}
    /\ restarts = 0

\* C31: in the update branch the variant update is handed to the limiter at
\* the reply to the product update and not before; a product update that
\* fails ends the sync with no variant update; a record is counted as updated
\* at the reply to the variant update only; and a variant update that fails
\* counts the record as failed, after the product update has succeeded.
C31_ProductThenVariant ==
  [][\A r \in Runs :
       /\ pc'[r] = "updateVariant" /\ pc[r] # "updateVariant" =>
            /\ pc[r] = "updateProduct" /\ job[r] = "executing"
            /\ job'[r] \in {"queued", "running"}
       /\ pc[r] = "updateProduct" /\ UpdateError(r) =>
            /\ pc'[r] \in {"getMapping", "done"} /\ job'[r] = "none"
            /\ failed'[r] = failed[r] + 1 /\ updated'[r] = updated[r]
       /\ updated'[r] = updated[r] + 1 =>
            pc[r] = "updateVariant" /\ job[r] = "executing"
       /\ pc[r] = "updateVariant" /\ UpdateError(r) =>
            failed'[r] = failed[r] + 1 /\ updated'[r] = updated[r]]_vars

\* a request has answered with one record updated and one failed in the
\* update branch
C31_Witness ==
  \E r \in Runs :
    /\ pc[r] = "done" /\ response[r].updated = 1 /\ response[r].failed = 1
    /\ logged[r] = "update"

\* C32: the loop of a request takes its records one at a time: it moves to
\* the next record only when the sync of the current one has settled and has
\* no call left in the limiter.  Hence, in a request that runs alone and
\* without a restart, a sync that looks up a stock id for which an earlier
\* record of the request was counted as created, and that returns without an
\* error, is counted as updated.
C32_OneAtATime ==
  [][\A r \in Runs :
       /\ idx[r] >= 1 /\ idx'[r] # idx[r] /\ restarts' = restarts =>
            /\ idx'[r] = idx[r] + 1
            /\ pc[r] \in InFlight \cup {"getMapping"}
            /\ pc'[r] \in {"getMapping", "done"}
            /\ job'[r] = "none"
       /\ (/\ \A s \in Runs \ {r} : pc[s] = "idle"
           /\ restarts' = 0
           /\ cur[r].prev
           /\ pc[r] \in InFlight /\ pc'[r] \notin InFlight
           /\ failed'[r] = failed[r])
          => updated'[r] = updated[r] + 1]_vars

\* C33: every row of the table holds a product id and a variant id; a create
\* reply that lacks one of the two ids leads to no write; and so a lookup
\* that finds a row finds a variant id, and the reply to the product update
\* hands the variant update to the limiter.
C33_RowsHoldBothIds ==
  [][/\ \A row \in db' : row.product_id # 0 /\ row.variant_id # 0
     /\ \A r \in Runs, hasId \in BOOLEAN, hasVariant \in BOOLEAN :
          CreateReply(r, hasId, hasVariant) /\ ~(hasId /\ hasVariant) =>
            db' = db /\ pc'[r] # "setMapping"
     /\ \A r \in Runs :
          /\ pc'[r] = "updateProduct" => mapping'[r].variantId # 0
          /\ UpdateProductReply(r) =>
               pc'[r] = "updateVariant" /\ job'[r] \in {"queued", "running"}]_vars

\* a stock id was counted as created and has no row, another has a row, and
\* the variant update of a sync that found the row is in the limiter
C33_Witness ==
  /\ \E k \in reported : Rows(k) = {}
  /\ \E r \in Runs :
       /\ pc[r] = "updateVariant" /\ job[r] \in {"queued", "running"}
       /\ Rows(key[r]) # {}
====
